---- MODULE Spec2Model ----
(***************************************************************************)
(* Model of Platform::Ranges::Range<T> (src/cpp/Platform.Ranges/Range[T].cpp) *)
(*                                                                         *)
(* Range<T> is a value type with two fields, Minimum and Maximum.  Each    *)
(* member of the type is a pure operator below, written as the code        *)
(* computes it.  The state machine is a caller that owns a few Range       *)
(* variables (slots) and, in one step, constructs a Range into a slot or   *)
(* calls one member on the Ranges it holds; the call, its return value     *)
(* and the error it raised are kept in the state so that the properties    *)
(* speak about what the code returned.                                     *)
(***************************************************************************)
EXTENDS Integers, Sequences, FiniteSets

\* Bounds of the model: T is instantiated with the integers
\* -MaxBelowZero..MaxValue.
MaxBelowZero == 1
MaxValue == 1

Values == (0 - MaxBelowZero)..MaxValue

\* The caller's Range variables.
Slots == {"a", "b"}

VARIABLES
    ranges,   \* ranges[s]: the Range held by the caller's variable s, or NoRange
    call,     \* the last member called, with its arguments
    ret,      \* the value that call returned (NoRange when it threw)
    err,      \* the error that call raised, or NoError
    recent,   \* results of the Contains(Range)/GetHashCode calls made just before
    debug     \* build configuration: TRUE when DEBUG is defined

vars == <<ranges, call, ret, err, recent, debug>>

-----------------------------------------------------------------------------
(* Values of the model *)

NoRange == [Absent |-> TRUE]

NoError == [kind |-> "None", param |-> ""]

InvalidArgument(argumentName) == [kind |-> "InvalidArgument", param |-> argumentName]

\* Field initialisers: T Minimum = 0; T Maximum = 0;
DefaultRange == [Minimum |-> 0, Maximum |-> 0]

\* Platform::Exceptions::Ensure::Always and Ensure::OnDebug
Always == "Always"
OnDebug == "OnDebug"

-----------------------------------------------------------------------------
(* The precondition helper.  Its code is not part of the source file; it   *)
(* is modelled from section 6 of the specification: raise InvalidArgument  *)
(* carrying the parameter name when maximum < minimum, no-op otherwise;    *)
(* the Always root validates in every build, the OnDebug root only in a    *)
(* DEBUG build.                                                            *)

MaximumArgumentIsGreaterOrEqualToMinimum(root, minimum, maximum, argumentName) ==
    IF (root = Always \/ debug) /\ maximum < minimum
    THEN InvalidArgument(argumentName)
    ELSE NoError

-----------------------------------------------------------------------------
(* Constructors.  Each returns [obj, err]: the object built, or NoRange    *)
(* and the error when the constructor threw.                               *)

Range_1_MaximumDefault(minimumAndMaximum) ==
    [obj |-> [DefaultRange EXCEPT !.Minimum = minimumAndMaximum],
     err |-> NoError]

Range_1(minimumAndMaximum) ==
    [obj |-> [DefaultRange EXCEPT !.Minimum = minimumAndMaximum,
                                  !.Maximum = minimumAndMaximum],
     err |-> NoError]

Range_2_Unchecked(minimum, maximum) ==
    [obj |-> [DefaultRange EXCEPT !.Minimum = minimum, !.Maximum = maximum],
     err |-> NoError]

Range_2_OnDebug(minimum, maximum) ==
    LET e == MaximumArgumentIsGreaterOrEqualToMinimum(OnDebug, minimum, maximum, "maximum")
    IN  IF e # NoError
        THEN [obj |-> NoRange, err |-> e]
        ELSE [obj |-> [DefaultRange EXCEPT !.Minimum = minimum, !.Maximum = maximum],
              err |-> NoError]

Range_2_Swapped(minimum, maximum) ==
    LET e == MaximumArgumentIsGreaterOrEqualToMinimum(Always, minimum, maximum, "maximum")
    IN  IF e # NoError
        THEN [obj |-> NoRange, err |-> e]
        ELSE [obj |-> [DefaultRange EXCEPT !.Minimum = maximum, !.Maximum = minimum],
              err |-> NoError]

Range_2(minimum, maximum) ==
    LET e == MaximumArgumentIsGreaterOrEqualToMinimum(Always, minimum, maximum, "maximum")
    IN  IF e # NoError
        THEN [obj |-> NoRange, err |-> e]
        ELSE [obj |-> [DefaultRange EXCEPT !.Minimum = minimum, !.Maximum = maximum],
              err |-> NoError]

-----------------------------------------------------------------------------
(* ToString.  A string is a sequence of one-character strings.             *)

DigitChars == <<"0", "1", "2", "3", "4", "5", "6", "7", "8", "9">>

RECURSIVE NatToString(_)
NatToString(n) ==
    IF n < 10
    THEN <<DigitChars[n + 1]>>
    ELSE NatToString(n \div 10) \o <<DigitChars[(n % 10) + 1]>>

\* The display form of a bound, as append(Minimum) / append(Maximum) renders it.
ValueToString(n) ==
    IF n < 0 THEN <<"-">> \o NatToString(0 - n) ELSE NatToString(n)

ToString(this) ==
    (((<<"[">> \o ValueToString(this.Minimum)) \o <<",", " ">>)
        \o ValueToString(this.Maximum)) \o <<"]">>

\* ToString returns data() of a temporary std::string: the pointer dangles
\* once the full expression ends, so the caller may read the text or
\* anything else.
ToStringResults(this) ==
    {[valid |-> TRUE, text |-> ToString(this)],
     [valid |-> FALSE, text |-> <<>>]}

-----------------------------------------------------------------------------
(* Queries *)

Contains_Strict(this, value) == this.Minimum < value /\ this.Maximum > value

Contains(this, value) == this.Minimum <= value /\ this.Maximum >= value

Contains_Range_MinimumOnly(this, range) == Contains(this, range.Minimum)

Contains_Range_Either(this, range) ==
    Contains(this, range.Minimum) \/ Contains(this, range.Maximum)

Contains_Range(this, range) ==
    Contains(this, range.Minimum) /\ Contains(this, range.Maximum)

Equals_MinimumOnly(this, other) == this.Minimum = other.Minimum

Equals(this, other) ==
    this.Minimum = other.Minimum /\ this.Maximum = other.Maximum

\* Untyped objects handed to Equals(void *obj).
NullObj == [type |-> "null", value |-> NoRange]
OtherObj == [type |-> "other", value |-> NoRange]
RangeObj(range) == [type |-> "Range", value |-> range]

Equals_obj(this, obj) ==
    IF obj.type = "Range" THEN Equals(this, obj.value) ELSE FALSE

\* Conversions
ToTuple_Swapped(range) == <<range.Maximum, range.Minimum>>

ToTuple(range) == <<range.Minimum, range.Maximum>>

FromTuple(tuple) == Range_2(tuple[1], tuple[2])

\* Hash of the pair {Minimum, Maximum}: the library's combination of the
\* two component hashes; the hash of an integer is the integer itself.
\* The bounded values keep every intermediate far inside 32 bits.
TupleHash(tuple) == (tuple[1] * 31) + tuple[2]

GetHashCode(this) == TupleHash(<<this.Minimum, this.Maximum>>)

OpEq(left, right) == Equals(left, right)

OpNe_NotNegated(left, right) == OpEq(left, right)

OpNe(left, right) == ~OpEq(left, right)

-----------------------------------------------------------------------------
(* The caller *)

Held == {s \in Slots : ranges[s] # NoRange}

\* The caller's record of a Contains(Range) or GetHashCode call: it keeps the
\* latest two of an unbroken run of such calls, for the == that follows them;
\* any other call or construction clears it.
Remember(entry) ==
    IF Len(recent) < 2 THEN Append(recent, entry) ELSE <<recent[2], entry>>

Init ==
    /\ ranges = [s \in Slots |-> NoRange]
    /\ call = [op |-> "none"]
    /\ ret = NoRange
    /\ err = NoError
    /\ recent = <<>>
    /\ debug \in BOOLEAN

\* s = Range<T>(v)
Construct_1(s, v) ==
    LET r == Range_1(v)
    IN  /\ call' = [op |-> "Range_1", target |-> s, value |-> v]
        /\ ret' = r.obj
        /\ err' = r.err
        /\ ranges' = IF r.err = NoError THEN [ranges EXCEPT ![s] = r.obj] ELSE ranges
        /\ recent' = <<>>
        /\ UNCHANGED debug

\* s = Range<T>(lo, hi)
Construct_2(s, lo, hi) ==
    LET r == Range_2(lo, hi)
    IN  /\ call' = [op |-> "Range_2", target |-> s, minimum |-> lo, maximum |-> hi]
        /\ ret' = r.obj
        /\ err' = r.err
        /\ ranges' = IF r.err = NoError THEN [ranges EXCEPT ![s] = r.obj] ELSE ranges
        /\ recent' = <<>>
        /\ UNCHANGED debug

\* s = (Range<T>)tuple.  origin is the Range the tuple was converted from
\* when the caller obtained it from the conversion it made just before.
Convert_FromTuple(s, tuple) ==
    LET r == FromTuple(tuple)
        origin == IF call.op = "ToTuple" /\ ret = tuple
                  THEN ranges[call.left] ELSE NoRange
    IN  /\ call' = [op |-> "FromTuple", target |-> s, minimum |-> tuple[1],
                    maximum |-> tuple[2], origin |-> origin]
        /\ ret' = r.obj
        /\ err' = r.err
        /\ ranges' = IF r.err = NoError THEN [ranges EXCEPT ![s] = r.obj] ELSE ranges
        /\ recent' = <<>>
        /\ UNCHANGED debug

\* (std::tuple<T, T>)s
Convert_ToTuple(s) ==
    /\ s \in Held
    /\ call' = [op |-> "ToTuple", left |-> s]
    /\ ret' = ToTuple(ranges[s])
    /\ err' = NoError
    /\ recent' = <<>>
    /\ UNCHANGED <<ranges, debug>>

\* s.Contains(v)
Call_Contains(s, v) ==
    /\ s \in Held
    /\ call' = [op |-> "Contains", left |-> s, value |-> v]
    /\ ret' = Contains(ranges[s], v)
    /\ err' = NoError
    /\ recent' = <<>>
    /\ UNCHANGED <<ranges, debug>>

\* s.Contains(t)
Call_Contains_Range(s, t) ==
    /\ s \in Held /\ t \in Held
    /\ call' = [op |-> "Contains_Range", left |-> s, right |-> t]
    /\ ret' = Contains_Range(ranges[s], ranges[t])
    /\ err' = NoError
    /\ recent' = Remember([op |-> "Contains_Range", left |-> s, right |-> t,
                           ret |-> Contains_Range(ranges[s], ranges[t])])
    /\ UNCHANGED <<ranges, debug>>

\* s.Equals(t)
Call_Equals(s, t) ==
    /\ s \in Held /\ t \in Held
    /\ call' = [op |-> "Equals", left |-> s, right |-> t]
    /\ ret' = Equals(ranges[s], ranges[t])
    /\ err' = NoError
    /\ recent' = <<>>
    /\ UNCHANGED <<ranges, debug>>

\* s.Equals(obj) with an untyped argument: a Range the caller holds, null,
\* or an object of another type
Call_Equals_obj(s, obj) ==
    /\ s \in Held
    /\ call' = [op |-> "Equals_obj", left |-> s, obj |-> obj]
    /\ ret' = Equals_obj(ranges[s], obj)
    /\ err' = NoError
    /\ recent' = <<>>
    /\ UNCHANGED <<ranges, debug>>

\* s == t
Call_OpEq(s, t) ==
    /\ s \in Held /\ t \in Held
    /\ call' = [op |-> "OpEq", left |-> s, right |-> t]
    /\ ret' = OpEq(ranges[s], ranges[t])
    /\ err' = NoError
    /\ UNCHANGED <<ranges, recent, debug>>

\* s != t
Call_OpNe(s, t) ==
    /\ s \in Held /\ t \in Held
    /\ call' = [op |-> "OpNe", left |-> s, right |-> t]
    /\ ret' = OpNe(ranges[s], ranges[t])
    /\ err' = NoError
    /\ recent' = <<>>
    /\ UNCHANGED <<ranges, debug>>

\* s.GetHashCode()
Call_GetHashCode(s) ==
    /\ s \in Held
    /\ call' = [op |-> "GetHashCode", left |-> s]
    /\ ret' = GetHashCode(ranges[s])
    /\ err' = NoError
    /\ recent' = Remember([op |-> "GetHashCode", left |-> s, right |-> s,
                           ret |-> GetHashCode(ranges[s])])
    /\ UNCHANGED <<ranges, debug>>

\* s.ToString()
Call_ToString(s) ==
    /\ s \in Held
    /\ call' = [op |-> "ToString", left |-> s]
    /\ \E out \in ToStringResults(ranges[s]) : ret' = out
    /\ err' = NoError
    /\ recent' = <<>>
    /\ UNCHANGED <<ranges, debug>>

Next ==
    \/ \E s \in Slots, v \in Values : Construct_1(s, v)
    \/ \E s \in Slots, lo \in Values, hi \in Values : Construct_2(s, lo, hi)
    \/ \E s \in Slots, tuple \in Values \X Values : Convert_FromTuple(s, tuple)
    \/ \E s \in Slots : Convert_ToTuple(s)
    \/ \E s \in Slots, v \in Values : Call_Contains(s, v)
    \/ \E s \in Slots, t \in Slots : Call_Contains_Range(s, t)
    \/ \E s \in Slots, t \in Slots : Call_Equals(s, t)
    \/ \E s \in Slots, obj \in {RangeObj(ranges[t]) : t \in Held} \cup {NullObj, OtherObj} :
           Call_Equals_obj(s, obj)
    \/ \E s \in Slots, t \in Slots : Call_OpEq(s, t)
    \/ \E s \in Slots, t \in Slots : Call_OpNe(s, t)
    \/ \E s \in Slots : Call_GetHashCode(s)
    \/ \E s \in Slots : Call_ToString(s)

Spec == Init /\ [][Next]_vars

TypeOK ==
    /\ \A s \in Slots : ranges[s] = NoRange \/ ranges[s] \in [Minimum : Values, Maximum : Values]
    /\ err \in {NoError, InvalidArgument("maximum")}
    /\ Len(recent) <= 2
    /\ debug \in BOOLEAN

-----------------------------------------------------------------------------
(* Properties *)

Constructions == {"Range_1", "Range_2", "FromTuple"}

Checked == {"Range_2", "FromTuple"}

SameBounds(a, b) == a.Minimum = b.Minimum /\ a.Maximum = b.Maximum

\* C1: every Range the caller holds, and every Range a construction returned,
\* has Minimum <= Maximum, in every state, whatever members were called on it.
C1_MinimumLeMaximum ==
    /\ \A s \in Slots :
           ranges[s] # NoRange => ranges[s].Minimum <= ranges[s].Maximum
    /\ (call.op \in Constructions /\ ret # NoRange) => ret.Minimum <= ret.Maximum

\* A Range built by the two-value constructor with distinct bounds, after a
\* query was called on it.
C1_Witness ==
    /\ call.op = "ToString"
    /\ ranges[call.left].Minimum < ranges[call.left].Maximum

\* C2: the two-value constructor and the conversion from a pair raise
\* InvalidArgument("maximum") exactly when maximum < minimum, in every build,
\* and then return no Range; no other member raises an error.
C2_InvalidArgumentExactly ==
    /\ call.op \in Checked =>
           /\ (err = InvalidArgument("maximum")) <=> (call.maximum < call.minimum)
           /\ (err = NoError) <=> ~(call.maximum < call.minimum)
           /\ (ret = NoRange) <=> (err # NoError)
    /\ call.op \notin Checked => err = NoError

\* A conversion from a pair with first > second that threw in a non-DEBUG build.
C2_Witness ==
    /\ call.op = "FromTuple"
    /\ call.maximum < call.minimum
    /\ err = InvalidArgument("maximum")
    /\ ~debug

\* C3: Range(lo, hi) with lo <= hi raises nothing and yields Minimum = lo,
\* Maximum = hi.
C3_TwoValueConstruction ==
    (call.op = "Range_2" /\ call.minimum <= call.maximum) =>
        /\ err = NoError
        /\ ret = [Minimum |-> call.minimum, Maximum |-> call.maximum]
        /\ ranges[call.target] = ret

\* Range(lo, hi) with lo = hi succeeded.
C3_Witness ==
    /\ call.op = "Range_2"
    /\ call.minimum = call.maximum
    /\ call.minimum # 0
    /\ err = NoError
    /\ ret # NoRange

\* C4: Range(v) raises nothing and yields Minimum = v and Maximum = v.
C4_SingleValueConstruction ==
    call.op = "Range_1" =>
        /\ err = NoError
        /\ ret = [Minimum |-> call.value, Maximum |-> call.value]
        /\ ranges[call.target] = ret

\* Range(v) for a v other than the fields' initial value.
C4_Witness ==
    /\ call.op = "Range_1"
    /\ call.value # 0
    /\ ret # NoRange

\* C5: r.Contains(v) returns TRUE iff r.Minimum <= v and v <= r.Maximum, and
\* raises nothing.
C5_ContainsValue ==
    call.op = "Contains" =>
        /\ err = NoError
        /\ ret = (ranges[call.left].Minimum <= call.value
                  /\ call.value <= ranges[call.left].Maximum)

\* Contains of the upper endpoint of a Range with distinct bounds.
C5_Witness ==
    /\ call.op = "Contains"
    /\ ranges[call.left].Minimum < ranges[call.left].Maximum
    /\ call.value = ranges[call.left].Maximum
    /\ ret = TRUE

\* C6: a.Contains(b) returns TRUE iff a.Minimum <= b.Minimum and
\* b.Maximum <= a.Maximum; r.Contains(r) is TRUE.
C6_SubsetLaw ==
    call.op = "Contains_Range" =>
        LET a == ranges[call.left]
            b == ranges[call.right]
        IN  /\ ret = (a.Minimum <= b.Minimum /\ b.Maximum <= a.Maximum)
            /\ SameBounds(a, b) => ret = TRUE

\* a.Contains(b) for a proper sub-range b that touches a's upper bound.
C6_Witness ==
    /\ call.op = "Contains_Range"
    /\ ranges[call.left].Minimum < ranges[call.right].Minimum
    /\ ranges[call.left].Maximum = ranges[call.right].Maximum
    /\ ret = TRUE

\* C7: a == b and a.Equals(b) return TRUE iff both bounds match pairwise, and
\* a != b returns the negation.
C7_Equality ==
    /\ call.op \in {"OpEq", "Equals"} =>
           ret = SameBounds(ranges[call.left], ranges[call.right])
    /\ call.op = "OpNe" =>
           ret = ~SameBounds(ranges[call.left], ranges[call.right])

\* a != b returned FALSE for two variables holding the same bounds.
C7_Witness ==
    /\ call.op = "OpNe"
    /\ call.left # call.right
    /\ ret = FALSE

\* The two calls before a == b were calls of op on a and on b, in that order.
Preceded(op1, l1, r1, op2, l2, r2) ==
    /\ call.op = "OpEq"
    /\ Len(recent) = 2
    /\ recent[1].op = op1 /\ recent[1].left = l1 /\ recent[1].right = r1
    /\ recent[2].op = op2 /\ recent[2].left = l2 /\ recent[2].right = r2

\* C8: when a == b returned TRUE, the hash codes a.GetHashCode() and
\* b.GetHashCode() computed just before are equal.
C8_EqualImpliesEqualHash ==
    (/\ Preceded("GetHashCode", call.left, call.left,
                 "GetHashCode", call.right, call.right)
     /\ ret = TRUE)
        => recent[1].ret = recent[2].ret

\* Hash codes taken of two variables that then compared equal.
C8_Witness ==
    /\ Preceded("GetHashCode", call.left, call.left,
                "GetHashCode", call.right, call.right)
    /\ call.left # call.right
    /\ ret = TRUE

\* C9: the conversion of a Range to a pair returns (Minimum, Maximum), and
\* converting that pair back raises nothing and returns a Range == to the
\* original.
C9_RoundTrip ==
    /\ call.op = "ToTuple" =>
           ret = <<ranges[call.left].Minimum, ranges[call.left].Maximum>>
    /\ (call.op = "FromTuple" /\ call.origin # NoRange) =>
           /\ err = NoError
           /\ ret # NoRange
           /\ OpEq(ret, call.origin)

\* A pair obtained from a Range with distinct bounds was converted back.
C9_Witness ==
    /\ call.op = "FromTuple"
    /\ call.origin # NoRange
    /\ call.origin.Minimum < call.origin.Maximum
    /\ ret # NoRange

\* C10: a.Contains(b) and b.Contains(a) both returned TRUE iff a == b
\* returns TRUE.
C10_ContainmentAntisymmetric ==
    Preceded("Contains_Range", call.left, call.right,
             "Contains_Range", call.right, call.left)
        => ((recent[1].ret /\ recent[2].ret) <=> ret)

\* Mutual containment of two variables that then compared equal.
C10_Witness ==
    /\ Preceded("Contains_Range", call.left, call.right,
                "Contains_Range", call.right, call.left)
    /\ call.left # call.right
    /\ recent[1].ret /\ recent[2].ret
    /\ ret = TRUE

====
